---- MODULE Spec2Model ----
(***************************************************************************)
(* A model of toolkit.py: the file organizer (organize_files) and the      *)
(* countdown / pomodoro timers (countdown_timer, pomodoro_timer).          *)
(*                                                                         *)
(* File names are sequences of one-character strings, so that suffix,      *)
(* stem, lower-casing and the "stem_counter.suffix" renaming are computed  *)
(* the way pathlib and the f-string compute them.                          *)
(***************************************************************************)
EXTENDS Integers, Sequences, FiniteSets, TLC

(***************************************************************************)
(* Bounds of the model.                                                    *)
(***************************************************************************)
\* at most this many regular files directly in the directory at the start
MaxFiles == 3
\* organize_files is called at most this many times in a row
MaxPasses == 2
\* the timer command is given at most this many seconds
MaxSeconds == 5
\* the timer command is given at least minus this many seconds
MaxNegative == 2
\* the pomodoro command is given at most this many work or break minutes
MaxMinutes == 1
\* the user answers y to the continue prompt at most until this cycle
MaxCycles == 2

(***************************************************************************)
(* organize_files: the category table (toolkit.py 19-28), in dict order.   *)
(***************************************************************************)
file_types ==
    << [folder |-> <<"I","m","a","g","e","s">>,
        extensions |-> {<<".","j","p","g">>,
                       <<".","j","p","e","g">>,
                       <<".","p","n","g">>,
                       <<".","g","i","f">>,
                       <<".","b","m","p">>,
                       <<".","s","v","g">>,
                       <<".","w","e","b","p">>}],
       [folder |-> <<"D","o","c","u","m","e","n","t","s">>,
        extensions |-> {<<".","p","d","f">>,
                       <<".","d","o","c">>,
                       <<".","d","o","c","x">>,
                       <<".","t","x","t">>,
                       <<".","x","l","s","x">>,
                       <<".","p","p","t","x">>,
                       <<".","c","s","v">>}],
       [folder |-> <<"V","i","d","e","o","s">>,
        extensions |-> {<<".","m","p","4">>,
                       <<".","a","v","i">>,
                       <<".","m","o","v">>,
                       <<".","m","k","v">>,
                       <<".","w","m","v">>,
                       <<".","f","l","v">>}],
       [folder |-> <<"M","u","s","i","c">>,
        extensions |-> {<<".","m","p","3">>,
                       <<".","w","a","v">>,
                       <<".","f","l","a","c">>,
                       <<".","a","a","c">>,
                       <<".","o","g","g">>}],
       [folder |-> <<"A","r","c","h","i","v","e","s">>,
        extensions |-> {<<".","z","i","p">>,
                       <<".","r","a","r">>,
                       <<".","7","z">>,
                       <<".","t","a","r">>,
                       <<".","g","z">>}],
       [folder |-> <<"C","o","d","e">>,
        extensions |-> {<<".","p","y">>,
                       <<".","j","s">>,
                       <<".","h","t","m","l">>,
                       <<".","c","s","s">>,
                       <<".","j","a","v","a">>,
                       <<".","c","p","p">>,
                       <<".","c">>,
                       <<".","p","h","p">>}],
       [folder |-> <<"E","x","e","c","u","t","a","b","l","e","s">>,
        extensions |-> {<<".","e","x","e">>,
                       <<".","m","s","i">>,
                       <<".","d","m","g">>,
                       <<".","p","k","g">>,
                       <<".","d","e","b">>}],
       [folder |-> <<"F","o","n","t","s">>,
        extensions |-> {<<".","t","t","f">>,
                       <<".","o","t","f">>,
                       <<".","w","o","f","f">>,
                       <<".","w","o","f","f","2">>}] >>

\* the fallback folder of line 60
Others == <<"O","t","h","e","r","s">>

\* every folder organize_files can create
FolderNames == {file_types[i].folder : i \in 1..Len(file_types)} \cup {Others}

\* `path` itself, as the parent of a direct entry
Dot == <<".">>

(***************************************************************************)
(* str.lower(), Path.suffix, Path.stem, str(int) and the f-string of       *)
(* line 50, computed on character sequences.                               *)
(***************************************************************************)
UpperCase == <<"A","B","C","D","E","F","G","H","I","J","K","L","M",
               "N","O","P","Q","R","S","T","U","V","W","X","Y","Z">>
LowerCase == <<"a","b","c","d","e","f","g","h","i","j","k","l","m",
               "n","o","p","q","r","s","t","u","v","w","x","y","z">>

LowerChar(c) ==
    IF \E i \in 1..Len(UpperCase) : UpperCase[i] = c
    THEN LowerCase[CHOOSE i \in 1..Len(UpperCase) : UpperCase[i] = c]
    ELSE c

Lower(s) == [i \in 1..Len(s) |-> LowerChar(s[i])]

\* str.rfind('.') as a 1-based index, 0 when there is no dot
RFindDot(name) ==
    LET dots == {i \in 1..Len(name) : name[i] = "."}
    IN  IF dots = {} THEN 0 ELSE CHOOSE i \in dots : \A j \in dots : j <= i

\* pathlib: a suffix needs a dot that is neither the first nor the last char
Suffix(name) ==
    LET i == RFindDot(name)
    IN  IF 1 < i /\ i < Len(name) THEN SubSeq(name, i, Len(name)) ELSE <<>>

Stem(name) ==
    LET i == RFindDot(name)
    IN  IF 1 < i /\ i < Len(name) THEN SubSeq(name, 1, i - 1) ELSE name

Digits == <<"0","1","2","3","4","5","6","7","8","9">>

RECURSIVE Str(_)
Str(n) == IF n < 10 THEN <<Digits[n + 1]>>
          ELSE Str(n \div 10) \o <<Digits[(n % 10) + 1]>>

\* line 50: f"{stem}_{counter}{suffix}"
NewName(stem, counter, suffix) == stem \o <<"_">> \o Str(counter) \o suffix

\* os.path.basename of the script path
Basename(p) ==
    LET slashes == {i \in 1..Len(p) : p[i] = "/"}
    IN  IF slashes = {} THEN p
        ELSE SubSeq(p, (CHOOSE i \in slashes : \A j \in slashes : j <= i) + 1, Len(p))

(***************************************************************************)
(* State.                                                                  *)
(*   top        regular files directly in the directory: name -> content   *)
(*   dirs       names of the directories directly in the directory         *)
(*   folders    the files inside each destination folder: name -> content  *)
(*   entries    what is left of the path.iterdir() listing                 *)
(*   top0, folders0   top and folders as they were when the pass began     *)
(*   printed    the count printed by line 67 (<<>> before it is printed)   *)
(*   retval     what the call returned (<<>> is None)                      *)
(*   __file__   the module global __file__                                 *)
(*   script_here  whether the directory organized holds the running script *)
(* A content is the identity of a file's bytes: <<"top", name>> for a file *)
(* that began directly in the directory, <<"pre", folder, name>> for one   *)
(* that was already inside a destination folder.                           *)
(***************************************************************************)
VARIABLES top, dirs, folders, entries, organized_count, org_pc, pass,
          top0, folders0, printed, retval, __file__, script_here

orgVars == <<top, dirs, folders, entries, organized_count, org_pc, pass,
             top0, folders0, printed, retval, __file__, script_here>>

(***************************************************************************)
(* State of the timers.                                                    *)
(*   command, arg_seconds, work_minutes, break_minutes   args of main()    *)
(*   t_pc       the position of the thread of control                      *)
(*   caller     which call of countdown_timer is running: "main" (line     *)
(*              280), "work" (line 220) or "break" (line 223)              *)
(*   seconds, original_seconds   the locals of countdown_timer             *)
(*   elapsed    time.time() - start_time, in half seconds                  *)
(*   ticks      how many times line 191 has run in this call               *)
(*   status     the status line of the terminal                            *)
(*   reported   the seconds named by the notice of line 196 (-1: none)     *)
(*   pulses     iterations done of the loop of line 202                    *)
(*   ct_out     what this call of countdown_timer has printed              *)
(*   out        everything printed since main() began                      *)
(*   cycles     the local of pomodoro_timer                                *)
(***************************************************************************)
VARIABLES command, arg_seconds, work_minutes, break_minutes, t_pc, caller,
          seconds, original_seconds, elapsed, ticks, status, reported,
          pulses, ct_out, out, cycles

timerVars == <<command, arg_seconds, work_minutes, break_minutes, t_pc, caller,
               seconds, original_seconds, elapsed, ticks, status, reported,
               pulses, ct_out, out, cycles>>

vars == <<orgVars, timerVars>>

EmptyMap == [n \in {} |-> n]

Without(m, k) == [n \in DOMAIN m \ {k} |-> m[n]]

\* shutil.move(src, dst) onto a destination path that is no directory:
\* os.rename (or copy2 + unlink) replaces whatever file is at dst
ShutilMove(m, k, content) == [n \in DOMAIN m \cup {k} |-> IF n = k THEN content ELSE m[n]]

\* line 36: the direct children of path
IterDirRecursive(t, d, f) ==
    {[parent |-> Dot, name |-> n] : n \in DOMAIN t \cup d}
    \cup UNION {{[parent |-> p, name |-> n] : n \in DOMAIN f[p]} : p \in d \cap FolderNames}

IterDir(t, d, f) == {[parent |-> Dot, name |-> n] : n \in DOMAIN t \cup d}

\* line 37: file_path.is_file()
IsFile(e) ==
    IF e.parent = Dot THEN e.name \in DOMAIN top
    ELSE e.name \in DOMAIN folders[e.parent]

ContentOf(e) == IF e.parent = Dot THEN top[e.name] ELSE folders[e.parent][e.name]

\* line 37: file_path.name != __file__
NotScript(name) == name # __file__

\* line 38: file_path.suffix.lower()
FileExtensionNoLower(name) == Suffix(name)

FileExtension(name) == Lower(Suffix(name))

\* lines 41-42: the first category whose list holds the extension, 0 for none
CategoryOf(ext) ==
    LET hits == {i \in 1..Len(file_types) : ext \in file_types[i].extensions}
    IN  IF hits = {} THEN 0 ELSE CHOOSE i \in hits : \A j \in hits : i <= j

\* lines 43 and 60: the folder the file goes to
TargetDir(name) ==
    LET c == CategoryOf(FileExtension(name))
    IN  IF c = 0 THEN Others ELSE file_types[c].folder

\* lines 44 and 61: mkdir(exist_ok=True) raises FileExistsError when the path
\* exists and is not a directory
MkdirOk(folder) == folder \notin DOMAIN top

\* lines 46-51: the first free name among name, stem_1suffix, stem_2suffix, ...
RECURSIVE Resolve(_, _, _, _)
Resolve(existing, name, new_name, counter) ==
    IF new_name \in existing
    THEN Resolve(existing, name, NewName(Stem(name), counter, Suffix(name)), counter + 1)
    ELSE new_name

\* lines 55 and 64: organized_count += 1
CategoryCount(c) == c + 1

OthersCountForgotten(c) == c

OthersCount(c) == c + 1

\* line 53 / 62: the source file leaves its place
TopWithout(e) == IF e.parent = Dot THEN Without(top, e.name) ELSE top

FoldersWithout(e) ==
    IF e.parent = Dot THEN folders
    ELSE [folders EXCEPT ![e.parent] = Without(@, e.name)]

(***************************************************************************)
(* organize_files, one action per step of the loop of lines 36-64.         *)
(***************************************************************************)
\* lines 30-36: a call of organize_files lists the directory
OrganizeCall ==
    /\ UNCHANGED timerVars
    /\ org_pc \in {"idle", "done"}
    /\ pass < MaxPasses
    /\ pass' = pass + 1
    /\ entries' = IterDir(top, dirs, folders)
    /\ organized_count' = 0
    /\ top0' = top
    /\ folders0' = folders
    /\ printed' = <<>>
    /\ retval' = <<>>
    /\ org_pc' = "loop"
    /\ UNCHANGED <<top, dirs, folders, __file__, script_here>>

\* line 37 is false: a directory, or the file whose name equals __file__
SkipEntry(e) ==
    /\ UNCHANGED timerVars
    /\ org_pc = "loop"
    /\ e \in entries
    /\ ~(IsFile(e) /\ NotScript(e.name))
    /\ entries' = entries \ {e}
    /\ UNCHANGED <<top, dirs, folders, organized_count, org_pc, pass,
                   top0, folders0, printed, retval, __file__, script_here>>

\* lines 41-57: the extension is in a category list
MoveToCategory(e) ==
    /\ UNCHANGED timerVars
    /\ org_pc = "loop"
    /\ e \in entries
    /\ IsFile(e) /\ NotScript(e.name)
    /\ CategoryOf(FileExtension(e.name)) # 0
    /\ LET folder == file_types[CategoryOf(FileExtension(e.name))].folder
           new_name == Resolve(DOMAIN folders[folder], e.name, e.name, 1)
       IN  /\ MkdirOk(folder)
           /\ top' = TopWithout(e)
           /\ dirs' = dirs \cup {folder}
           /\ folders' = [FoldersWithout(e) EXCEPT
                            ![folder] = ShutilMove(@, new_name, ContentOf(e))]
    /\ organized_count' = CategoryCount(organized_count)
    /\ entries' = entries \ {e}
    /\ UNCHANGED <<org_pc, pass, top0, folders0, printed, retval, __file__, script_here>>

\* lines 59-64: no category list holds the extension
MoveToOthers(e) ==
    /\ UNCHANGED timerVars
    /\ org_pc = "loop"
    /\ e \in entries
    /\ IsFile(e) /\ NotScript(e.name)
    /\ CategoryOf(FileExtension(e.name)) = 0
    /\ MkdirOk(Others)
    /\ top' = TopWithout(e)
    /\ dirs' = dirs \cup {Others}
    /\ folders' = [FoldersWithout(e) EXCEPT
                     ![Others] = ShutilMove(@, e.name, ContentOf(e))]
    /\ organized_count' = OthersCount(organized_count)
    /\ entries' = entries \ {e}
    /\ UNCHANGED <<org_pc, pass, top0, folders0, printed, retval, __file__, script_here>>

\* lines 44 and 61: mkdir raises FileExistsError, which leaves organize_files
MkdirRaises(e) ==
    /\ UNCHANGED timerVars
    /\ org_pc = "loop"
    /\ e \in entries
    /\ IsFile(e) /\ NotScript(e.name)
    /\ ~MkdirOk(TargetDir(e.name))
    /\ org_pc' = "raised"
    /\ UNCHANGED <<top, dirs, folders, entries, organized_count, pass,
                   top0, folders0, printed, retval, __file__, script_here>>

\* lines 66-67: the listing is exhausted, the count is printed, None returned
OrganizeReturn ==
    /\ UNCHANGED timerVars
    /\ org_pc = "loop"
    /\ entries = {}
    /\ printed' = <<organized_count>>
    /\ retval' = <<>>
    /\ org_pc' = "done"
    /\ UNCHANGED <<top, dirs, folders, entries, organized_count, pass,
                   top0, folders0, __file__, script_here>>

(***************************************************************************)
(* The directories organize_files is run on.                               *)
(***************************************************************************)
ScriptName == <<"t","o","o","l","k","i","t",".","p","y">>

\* __file__ as `python toolkit.py` sets it before Python 3.9, and as an
\* absolute path (Python 3.9 and later, or a script started by its path)
ScriptPaths == {ScriptName, <<"/","w","/">> \o ScriptName}

TopNames ==
    { <<"a",".","p","n","g">>,
      <<"a",".","P","N","G">>,
      <<"a","_","1",".","p","n","g">>,
      <<"z",".","x","y","z">>,
      <<"n","o","t","e","s">>,
      Others,
      <<"I","m","a","g","e","s">>,
      ScriptName }

\* files that may already be inside a destination folder: <<folder, name>>
PreFiles ==
    { << <<"I","m","a","g","e","s">>, <<"a",".","p","n","g">> >>,
      << <<"I","m","a","g","e","s">>, <<"a","_","1",".","p","n","g">> >>,
      << Others, <<"z",".","x","y","z">> >> }

OrgInit ==
    /\ \E names \in SUBSET TopNames, pre \in SUBSET PreFiles :
         /\ Cardinality(names) <= MaxFiles
         /\ names \cap {p[1] : p \in pre} = {}
         /\ top = [n \in names |-> <<"top", n>>]
         /\ dirs = {p[1] : p \in pre}
         /\ folders = [f \in FolderNames |->
                          [n \in {p[2] : p \in {q \in pre : q[1] = f}} |-> <<"pre", f, n>>]]
    /\ __file__ \in ScriptPaths
    /\ script_here \in BOOLEAN
    /\ script_here => Basename(__file__) \in DOMAIN top
    /\ entries = {}
    /\ organized_count = 0
    /\ org_pc = "idle"
    /\ pass = 0
    /\ top0 = top
    /\ folders0 = folders
    /\ printed = <<>>
    /\ retval = <<>>

(***************************************************************************)
(* countdown_timer and pomodoro_timer.                                     *)
(***************************************************************************)
\* line 179
bar_length == 30

\* line 202: range(3)
AlertPulses == 3

\* lines 220 and 223: minutes * 60
SecondsPerMinute == 60

Blank == [kind |-> "blank", filled |-> 0, num |-> 0, den |-> 1, time_format |-> <<>>]

\* line 155: clear_line()
Cleared == [kind |-> "cleared", filled |-> 0, num |-> 0, den |-> 1, time_format |-> <<>>]

\* lines 175-188: the status line of one tick; progress is num / den and
\* int() of the non-negative 30 * progress is its floor
Render(s, orig) ==
    LET mins0 == s \div 60
        secs  == s % 60
        hours == mins0 \div 60
        mins  == mins0 % 60
    IN  [kind |-> "bar",
         filled |-> (bar_length * (orig - s)) \div orig,
         num |-> orig - s,
         den |-> orig,
         time_format |-> IF hours > 0 THEN <<hours, mins, secs>> ELSE <<mins, secs>>]

\* line 173: while seconds > 0
LoopCondOffByOne(s) == s >= 0

LoopCond(s) == s > 0

\* line 196: int(elapsed), elapsed counted in half seconds
IntElapsed(e) == e \div 2

\* line 197: the handler returns from countdown_timer
AfterStopNoReturn(s) == IF LoopCond(s) THEN "ct_render" ELSE "ct_finish"

AfterStop(s) == "ct_return"

LoopPcs == {"ct_render", "ct_sleep", "ct_dec"}

\* lines 160-173: a call countdown_timer(arg), after `printedBefore` was printed.
\* arg is an integer (argparse type=int, minutes * 60), so int(arg) is arg and
\* the ValueError of line 206 cannot occur.
CountdownEntry(arg, who, printedBefore) ==
    /\ caller' = who
    /\ seconds' = arg
    /\ ticks' = 0
    /\ reported' = -1
    /\ pulses' = 0
    /\ elapsed' = 0
    /\ IF arg <= 0
       THEN /\ ct_out' = <<"err_positive">>
            /\ out' = out \o printedBefore \o <<"err_positive">>
            /\ t_pc' = "ct_return"
            /\ UNCHANGED original_seconds
       ELSE /\ original_seconds' = arg
            /\ ct_out' = <<"header">>
            /\ out' = out \o printedBefore \o <<"header">>
            /\ t_pc' = IF LoopCond(arg) THEN "ct_render" ELSE "ct_finish"
    /\ UNCHANGED <<command, arg_seconds, work_minutes, break_minutes, status>>

\* line 280
MainTimer ==
    /\ UNCHANGED orgVars
    /\ t_pc = "main"
    /\ command = "timer"
    /\ CountdownEntry(arg_seconds, "main", <<>>)
    /\ UNCHANGED cycles

\* line 283, lines 212-214
MainPomodoro ==
    /\ UNCHANGED orgVars
    /\ t_pc = "main"
    /\ command = "pomodoro"
    /\ t_pc' = "pom_loop"
    /\ cycles' = 0
    /\ UNCHANGED <<command, arg_seconds, work_minutes, break_minutes, caller,
                   seconds, original_seconds, elapsed, ticks, status, reported,
                   pulses, ct_out, out>>

\* lines 175-188
TickRender ==
    /\ UNCHANGED orgVars
    /\ t_pc = "ct_render"
    /\ status' = Render(seconds, original_seconds)
    /\ t_pc' = "ct_sleep"
    /\ UNCHANGED <<command, arg_seconds, work_minutes, break_minutes, caller,
                   seconds, original_seconds, elapsed, ticks, reported,
                   pulses, ct_out, out, cycles>>

\* line 190: time.sleep(1)
TickSleep ==
    /\ UNCHANGED orgVars
    /\ t_pc = "ct_sleep"
    /\ elapsed' = elapsed + 2
    /\ t_pc' = "ct_dec"
    /\ UNCHANGED <<command, arg_seconds, work_minutes, break_minutes, caller,
                   seconds, original_seconds, ticks, status, reported,
                   pulses, ct_out, out, cycles>>

\* line 191, then the test of line 173
TickDec ==
    /\ UNCHANGED orgVars
    /\ t_pc = "ct_dec"
    /\ seconds' = seconds - 1
    /\ ticks' = ticks + 1
    /\ t_pc' = IF LoopCond(seconds - 1) THEN "ct_render" ELSE "ct_finish"
    /\ UNCHANGED <<command, arg_seconds, work_minutes, break_minutes, caller,
                   original_seconds, elapsed, status, reported,
                   pulses, ct_out, out, cycles>>

\* lines 193-197: KeyboardInterrupt inside the try of line 174 (while the line
\* is rendered, during the sleep, or before the decrement); a sleep that is
\* interrupted has lasted less than its second. The handler runs as one step.
InterruptInLoop(partial) ==
    /\ UNCHANGED orgVars
    /\ t_pc \in LoopPcs
    /\ (t_pc # "ct_sleep") => (partial = 0)
    /\ status' = Cleared
    /\ elapsed' = elapsed + partial
    /\ reported' = IntElapsed(elapsed + partial)
    /\ ct_out' = Append(ct_out, "stopped")
    /\ out' = Append(out, "stopped")
    /\ t_pc' = AfterStop(seconds)
    /\ UNCHANGED <<command, arg_seconds, work_minutes, break_minutes, caller,
                   seconds, original_seconds, ticks, pulses, cycles>>

\* lines 199-200
Finish ==
    /\ UNCHANGED orgVars
    /\ t_pc = "ct_finish"
    /\ status' = Cleared
    /\ ct_out' = Append(ct_out, "complete")
    /\ out' = Append(out, "complete")
    /\ pulses' = 0
    /\ t_pc' = "ct_beep"
    /\ UNCHANGED <<command, arg_seconds, work_minutes, break_minutes, caller,
                   seconds, original_seconds, elapsed, ticks, reported, cycles>>

\* lines 202-204: beep(), time.sleep(0.5)
Beep ==
    /\ UNCHANGED orgVars
    /\ t_pc = "ct_beep"
    /\ pulses < AlertPulses
    /\ ct_out' = Append(ct_out, "beep")
    /\ out' = Append(out, "beep")
    /\ elapsed' = elapsed + 1
    /\ pulses' = pulses + 1
    /\ t_pc' = IF pulses + 1 < AlertPulses THEN "ct_beep" ELSE "ct_return"
    /\ UNCHANGED <<command, arg_seconds, work_minutes, break_minutes, caller,
                   seconds, original_seconds, ticks, status, reported, cycles>>

\* countdown_timer returns to the line after its call
CountdownReturn ==
    /\ UNCHANGED orgVars
    /\ t_pc = "ct_return"
    /\ t_pc' = CASE caller = "main" -> "exit"
                 [] caller = "work" -> "pom_break"
                 [] caller = "break" -> "pom_prompt"
    /\ UNCHANGED <<command, arg_seconds, work_minutes, break_minutes, caller,
                   seconds, original_seconds, elapsed, ticks, status, reported,
                   pulses, ct_out, out, cycles>>

\* lines 215-220
PomWork ==
    /\ UNCHANGED orgVars
    /\ t_pc = "pom_loop"
    /\ cycles' = cycles + 1
    /\ CountdownEntry(work_minutes * SecondsPerMinute, "work", <<"cycle", "work_session">>)

\* lines 222-223
PomBreak ==
    /\ UNCHANGED orgVars
    /\ t_pc = "pom_break"
    /\ CountdownEntry(break_minutes * SecondsPerMinute, "break", <<"break_session">>)
    /\ UNCHANGED cycles

\* line 225
PomPrompt ==
    /\ UNCHANGED orgVars
    /\ t_pc = "pom_prompt"
    /\ out' = Append(out, "prompt")
    /\ t_pc' = "pom_input"
    /\ UNCHANGED <<command, arg_seconds, work_minutes, break_minutes, caller,
                   seconds, original_seconds, elapsed, ticks, status, reported,
                   pulses, ct_out, cycles>>

\* what the user may type at the prompt
Answers == {<<"y">>, <<"Y">>, <<"n">>, <<>>}

\* lines 226-229: choice = input().lower()
PomInput(typed) ==
    /\ UNCHANGED orgVars
    /\ t_pc = "pom_input"
    /\ IF Lower(typed) # <<"y">>
       THEN /\ out' = Append(out, "ended")
            /\ t_pc' = "exit"
       ELSE /\ cycles < MaxCycles
            /\ out' = out
            /\ t_pc' = "pom_loop"
    /\ UNCHANGED <<command, arg_seconds, work_minutes, break_minutes, caller,
                   seconds, original_seconds, elapsed, ticks, status, reported,
                   pulses, ct_out, cycles>>

\* KeyboardInterrupt outside the try of line 174: it leaves countdown_timer
\* (line 206 catches ValueError only) and is caught at line 231, or at line
\* 285 when main() called countdown_timer itself
InterruptOutsideLoop ==
    /\ UNCHANGED orgVars
    /\ t_pc \in {"ct_finish", "ct_beep", "ct_return",
                 "pom_loop", "pom_break", "pom_prompt", "pom_input"}
    /\ out' = Append(out, IF command = "pomodoro" THEN "pomodoro_interrupted"
                                                  ELSE "program_interrupted")
    /\ t_pc' = "exit"
    /\ UNCHANGED <<command, arg_seconds, work_minutes, break_minutes, caller,
                   seconds, original_seconds, elapsed, ticks, status, reported,
                   pulses, ct_out, cycles>>

(***************************************************************************)
(* The two commands as specifications.                                     *)
(***************************************************************************)
TimerOff ==
    /\ command = "organize"
    /\ arg_seconds = 0
    /\ work_minutes = 0
    /\ break_minutes = 0
    /\ t_pc = "exit"
    /\ caller = "main"
    /\ seconds = 0
    /\ original_seconds = 0
    /\ elapsed = 0
    /\ ticks = 0
    /\ status = Blank
    /\ reported = -1
    /\ pulses = 0
    /\ ct_out = <<>>
    /\ out = <<>>
    /\ cycles = 0

OrgOff ==
    /\ top = EmptyMap
    /\ dirs = {}
    /\ folders = [f \in FolderNames |-> EmptyMap]
    /\ __file__ = ScriptName
    /\ script_here = FALSE
    /\ entries = {}
    /\ organized_count = 0
    /\ org_pc = "off"
    /\ pass = 0
    /\ top0 = top
    /\ folders0 = folders
    /\ printed = <<>>
    /\ retval = <<>>

\* lines 251-261: argparse turns the arguments into integers
TimerInit ==
    /\ command \in {"timer", "pomodoro"}
    /\ IF command = "timer"
       THEN /\ arg_seconds \in (0 - MaxNegative)..MaxSeconds
            /\ work_minutes = 0
            /\ break_minutes = 0
       ELSE /\ arg_seconds = 0
            /\ work_minutes \in 0..MaxMinutes
            /\ break_minutes \in 0..MaxMinutes
    /\ t_pc = "main"
    /\ caller = "main"
    /\ seconds = 0
    /\ original_seconds = 0
    /\ elapsed = 0
    /\ ticks = 0
    /\ status = Blank
    /\ reported = -1
    /\ pulses = 0
    /\ ct_out = <<>>
    /\ out = <<>>
    /\ cycles = 0

OrgNext ==
    \/ OrganizeCall
    \/ \E e \in entries : SkipEntry(e)
    \/ \E e \in entries : MoveToCategory(e)
    \/ \E e \in entries : MoveToOthers(e)
    \/ \E e \in entries : MkdirRaises(e)
    \/ OrganizeReturn

TimerNext ==
    \/ MainTimer
    \/ MainPomodoro
    \/ TickRender
    \/ TickSleep
    \/ TickDec
    \/ \E partial \in {0, 1} : InterruptInLoop(partial)
    \/ Finish
    \/ Beep
    \/ CountdownReturn
    \/ PomWork
    \/ PomBreak
    \/ PomPrompt
    \/ \E typed \in Answers : PomInput(typed)
    \/ InterruptOutsideLoop

\* line 274: main() runs the organize command
InitOrganize == OrgInit /\ TimerOff

\* lines 280 and 283: main() runs the timer or the pomodoro command
InitTimer == TimerInit /\ OrgOff

SpecOrganize == InitOrganize /\ [][OrgNext]_vars

SpecTimer == InitTimer /\ [][TimerNext]_vars
(***************************************************************************)
(* Properties of organize_files.                                           *)
(***************************************************************************)
Range(s) == {s[i] : i \in 1..Len(s)}

\* where folder f holds the content c after the pass
NamesOf(f, c) == {m \in DOMAIN folders[f] : folders[f][m] = c}

\* the category whose extension list contains the lower-cased extension of
\* the name, Others when no list contains it
ExpectedFolder(name) ==
    LET ext == Lower(Suffix(name))
        hits == {i \in 1..Len(file_types) : ext \in file_types[i].extensions}
    IN  IF hits = {} THEN Others ELSE file_types[CHOOSE i \in hits : TRUE].folder

\* the regular files that left the directory during the pass
MovedOut == Cardinality(DOMAIN top0) - Cardinality(DOMAIN top)

\* C1: a move never overwrites: when a file F of the directory is moved into
\* a folder that held a file of F's name before the pass, then after the pass
\* that file is still there with its content, and F is there under another name.
C1_NeverOverwrites ==
    org_pc = "done" =>
        \A f \in FolderNames : \A n \in DOMAIN top0 \cap DOMAIN folders0[f] :
            NamesOf(f, top0[n]) # {} =>
                /\ n \in DOMAIN folders[f]
                /\ folders[f][n] = folders0[f][n]
                /\ \E m \in NamesOf(f, top0[n]) : m # n

\* C2 as stated: after the pass every regular file that was directly in the
\* directory has left its path and is inside the folder of its category.
C2_EveryFileMoved ==
    org_pc = "done" =>
        \A n \in DOMAIN top0 :
            /\ n \notin DOMAIN top
            /\ NamesOf(ExpectedFolder(n), top0[n]) # {}

\* C2 amended: after the pass every regular file that was directly in the
\* directory and whose name differs from __file__ has left its path and is
\* inside the folder of its category (Others when no category lists its
\* lower-cased extension).
C2_EveryFileButScriptMoved ==
    org_pc = "done" =>
        \A n \in DOMAIN top0 :
            n # __file__ =>
                /\ n \notin DOMAIN top
                /\ NamesOf(ExpectedFolder(n), top0[n]) # {}

\* a pass has moved an upper-case .PNG into Images and an extensionless file
\* into Others
C2_Witness ==
    /\ org_pc = "done"
    /\ pass = 1
    /\ <<"a",".","P","N","G">> \in DOMAIN top0
    /\ <<"n","o","t","e","s">> \in DOMAIN top0
    /\ NamesOf(<<"I","m","a","g","e","s">>, <<"top", <<"a",".","P","N","G">> >>) # {}
    /\ NamesOf(Others, <<"top", <<"n","o","t","e","s">> >>) # {}

\* C7: a second pass over the result of a first pass moves no file and leaves
\* every file inside the folders at its path.
C7_SecondPassMovesNothing ==
    (org_pc = "done" /\ pass >= 2) =>
        /\ organized_count = 0
        /\ printed = <<0>>
        /\ folders = folders0
        /\ top = top0

\* a second pass has finished over folders that hold files moved by the first
C7_Witness ==
    /\ org_pc = "done"
    /\ pass = 2
    /\ \E f \in FolderNames : \E m \in DOMAIN folders[f] : folders[f][m][1] = "top"
    /\ \E f \in FolderNames : \E m \in DOMAIN folders[f] : folders[f][m][1] = "pre"

\* C8 as stated: organize_files returns the count of the files it moved.
C8_ReturnsCount ==
    org_pc = "done" => retval = <<MovedOut>>

\* C8 amended: organize_files returns None; the count of the files it moved in
\* the pass, one per move, is what it prints in its last line.
C8_PrintsCount ==
    org_pc = "done" =>
        /\ retval = <<>>
        /\ printed = <<MovedOut>>
        /\ organized_count = MovedOut

\* a pass that moved a.png, a file without extension and z.xyz printed 3
C8_Witness ==
    /\ org_pc = "done"
    /\ pass = 1
    /\ DOMAIN top0 = {<<"a",".","p","n","g">>, <<"n","o","t","e","s">>, <<"z",".","x","y","z">>}
    /\ printed = <<3>>

\* C9: when the directory holds the running script, the pass leaves it at its
\* path and does not count it.
C9_ScriptSkipped ==
    (org_pc = "done" /\ pass = 1 /\ script_here) =>
        /\ Basename(__file__) \in DOMAIN top
        /\ organized_count <= Cardinality(DOMAIN top0) - 1

\* C10: the pass never raises, and after it no regular file other than the
\* running script is directly in the directory.
C10_CompletesAndEmpties ==
    /\ org_pc # "raised"
    /\ org_pc = "done" =>
           \A n \in DOMAIN top : script_here /\ n = Basename(__file__)

(***************************************************************************)
(* Properties of the timers.                                               *)
(***************************************************************************)
\* the argument of the running call of countdown_timer
InvocationArg ==
    CASE caller = "main" -> arg_seconds
      [] caller = "work" -> work_minutes * 60
      [] caller = "break" -> break_minutes * 60

\* C3: once an interrupt has arrived in a pomodoro session, no countdown is
\* started and no continue prompt is shown.
C3_InterruptEndsSession ==
    \A i \in 1..Len(out) : \A j \in 1..Len(out) :
        (/\ i < j
         /\ out[i] \in {"stopped", "pomodoro_interrupted"})
            => out[j] \notin {"cycle", "work_session", "break_session",
                              "header", "err_positive", "prompt"}

\* C4: an interrupt in the tick loop after k of N ticks, 0 <= k < N, ends the
\* loop with no further tick, clears the status line and prints one notice
\* with the whole seconds elapsed; the call prints no completion message and
\* no alert pulse.
C4_StoppedEarly ==
    "stopped" \in Range(ct_out) =>
        /\ ct_out = <<"header", "stopped">>
        /\ t_pc \notin LoopPcs \cup {"ct_finish", "ct_beep"}
        /\ ticks = original_seconds - seconds
        /\ 0 <= ticks /\ ticks < original_seconds
        /\ reported = elapsed \div 2
        /\ reported \in {ticks, ticks + 1}
        /\ status = Cleared

\* the timer command with 5 seconds was interrupted after 2 ticks
C4_Witness ==
    /\ command = "timer"
    /\ arg_seconds = 5
    /\ ct_out = <<"header", "stopped">>
    /\ ticks = 2
    /\ reported = 2
    /\ t_pc = "exit"

\* C5: an uninterrupted call with N > 0 makes exactly N ticks, each lowering
\* the remaining seconds by 1, from N to 0, then prints the completion message
\* and three alert pulses; with N <= 0 it makes no tick and prints only the
\* input error.
C5_ExactlyNTicks ==
    /\ t_pc \in LoopPcs => (seconds > 0 /\ seconds = InvocationArg - ticks)
    /\ (t_pc = "ct_return" /\ "stopped" \notin Range(ct_out)) =>
           IF InvocationArg > 0
           THEN /\ ticks = InvocationArg
                /\ seconds = 0
                /\ ct_out = <<"header", "complete", "beep", "beep", "beep">>
           ELSE /\ ticks = 0
                /\ ct_out = <<"err_positive">>

\* the timer command with 5 seconds ran to its end
C5_Witness ==
    /\ command = "timer"
    /\ arg_seconds = 5
    /\ t_pc = "ct_return"
    /\ ticks = 5
    /\ ct_out = <<"header", "complete", "beep", "beep", "beep">>

\* C6: the status line of a tick shows 100% and a full bar on the final tick
\* (the one that takes the remaining seconds to 0) and on no earlier tick.
C6_FullOnFinalTick ==
    t_pc = "ct_sleep" =>
        ((status.num = status.den /\ status.filled = bar_length) <=> seconds = 1)
====
